---- MODULE Spec2Model ----
(***************************************************************************)
(* Ownership-transfer state machine and settlement of the investments app. *)
(*                                                                         *)
(* The database tables are the variables investments, activities and       *)
(* transfers (primary key = index).  Every HTTP request runs in a slot of  *)
(* req: it first loads model instances into its own memory (get_object /   *)
(* serializer validation), later writes them back with Model.save(), and   *)
(* the post_save receiver handle_transfer_completion then works on the     *)
(* in-memory instances of that request.  Money is counted in cents         *)
(* (DecimalField, decimal_places=2).  snapshots is the PerformanceSnapshot  *)
(* table, today the current date as a day number, and calc the analytics   *)
(* call in progress or the last response it produced.                      *)
(***************************************************************************)
EXTENDS Integers, Sequences, FiniteSets, TLC

\* ---------------------------------------------------------------- bounds
NReq == 2
MaxTransfers == 2
MaxAmount == 1
InitMax == 2
MaxSettlements == 2
MaxApiTransfers == 1
MaxFeeAmount == 40
MaxLedgerRows == 2
SeedValue == 3
MaxPoints == 2
MaxPortfolio == 6
MaxCents == 5
MaxDay == 2

\* ------------------------------------------------------------- constants
Users == {"u1", "u2"}
Staff == {"u1"}
NoUser == "null"
Names == {"X"}
Reqs == 1..NReq

STATUS_CHOICES == {"DRAFT", "PENDING", "APPROVED", "COMPLETED", "CANCELLED", "REJECTED"}
TRANSFER_TYPE_CHOICES == {"FULL", "PARTIAL"}
ACTIVITY_TYPE_CHOICES == {"INITIAL_INVESTMENT", "CAPITAL_CALL", "DISTRIBUTION", "PARTIAL_EXIT"}
\* How a Decimal with more than two decimal places is rounded when it is
\* stored: Django quantizes with ROUND_HALF_EVEN before sending the value to
\* SQLite; PostgreSQL receives the full value and its numeric(15,2) column
\* rounds half away from zero.  DATABASE_URL selects the backend.
RoundingModes == {"ROUND_HALF_EVEN", "ROUND_HALF_UP"}
\* Percentages a payload carries, in percent: 0 stands for "not given".
Percentages == {0, 50, 101}
Outstanding == {"DRAFT", "PENDING", "APPROVED"}
TransferableStatus == {"ACTIVE", "UNDERPERFORMING"}

VARIABLES investments, activities, transfers, req, snapshots, today, calc

vars == <<investments, activities, transfers, req, snapshots, today, calc>>

\* ------------------------------------------------------------ model rows
Investment(u, n, st, ti, cv) ==
    [user |-> u, name |-> n, status |-> st, total_invested |-> ti, current_value |-> cv]

OwnershipTransfer(i, fu, tu, ty, amt, st) ==
    [investment |-> i, from_user |-> fu, to_user |-> tu, transfer_type |-> ty,
     transfer_amount |-> amt, transfer_fee |-> 0, net_amount |-> 0,
     status |-> st, is_processed |-> FALSE, completion_date |-> FALSE]

CapitalActivity(i, ty, amt, t) ==
    [investment |-> i, activity_type |-> ty, amount |-> amt, transfer |-> t]

PerformanceSnapshot(i, d, v) ==
    [investment |-> i, date |-> d, value |-> v]

NoInvestment == Investment(NoUser, "", "", 0, 0)
\* A deleted row of the ledger (primary keys are never reused).
NoActivity == CapitalActivity(0, "", 0, 0)
NoTransfer == OwnershipTransfer(0, NoUser, NoUser, "", 0, "")

Idle ==
    [pc |-> "idle", op |-> "", user |-> NoUser, tid |-> 0, code |-> 0, inst |-> NoTransfer,
     seller_pk |-> 0, seller |-> NoInvestment, buyer_pk |-> 0, buyer |-> NoInvestment]

\* xirr's "no result" (None).
NoResult == [kind |-> "none"]

\* No analytics call has been made.
NoCalc ==
    [op |-> "", pc |-> "done", dates |-> <<>>, cash_flows |-> <<>>, iter |-> 0,
     cause |-> "", result |-> NoResult, raised |-> FALSE]

TransferIds == 1..Len(transfers)
InvestmentIds == 1..Len(investments)

\* ----------------------------------------------------------------- Init
\* The snapshots the rows of invs got when they were created, on day 0: one
\* for each row with a positive current_value.
RECURSIVE CreationSnapshots(_, _)
CreationSnapshots(invs, k) ==
    IF k > Len(invs) THEN <<>>
    ELSE (IF invs[k].current_value > 0
          THEN <<PerformanceSnapshot(k, 0, invs[k].current_value)>>
          ELSE <<>>) \o CreationSnapshots(invs, k + 1)

Init ==
    /\ \E ti \in 1..InitMax, cv \in {0, InitMax} :
          investments = <<Investment("u1", "X", "ACTIVE", ti, cv)>>
    /\ activities = <<>>
    /\ transfers = <<>>
    /\ req = [r \in Reqs |-> Idle]
    /\ snapshots = CreationSnapshots(investments, 1)
    /\ today = 1
    /\ calc = NoCalc


\* ------------------------------------------------- settlement (signals.py)
\* Possible stored values of the exact quotient n/d once written to a
\* DecimalField with two decimal places: the nearest cent, and at an exact
\* half cent either neighbour (the rounding mode depends on the database
\* backend).
RoundCents(n, d) ==
    LET q == n \div d
        rem == n % d
    IN  IF 2 * rem < d THEN {q}
        ELSE IF 2 * rem > d THEN {q + 1}
        ELSE {q, q + 1}

\* The stored value of the exact non-negative quotient n/d under rounding
\* mode m.
Quantize(n, d, m) ==
    LET q == n \div d
        rem == n % d
    IN  IF 2 * rem < d THEN q
        ELSE IF 2 * rem > d THEN q + 1
        ELSE IF m = "ROUND_HALF_EVEN" /\ q % 2 = 0 THEN q
        ELSE q + 1

SkipsSettlementNoFlag(inst) ==
    inst.status # "COMPLETED"

\* Early returns of the receiver, evaluated on the instance handed to it.
SkipsSettlement(inst) ==
    inst.status # "COMPLETED" \/ inst.is_processed

NoBuyerUnchecked(inst) ==
    FALSE

NoBuyer(inst) ==
    inst.to_user = NoUser

ExceedsValue(inst, seller) ==
    seller.current_value < inst.transfer_amount

HandlerProceeds(inst, seller) ==
    /\ ~SkipsSettlement(inst)
    /\ ~NoBuyer(inst)
    /\ ~ExceedsValue(inst, seller)

CostBasisAfterInverted(seller, inst) ==
    IF seller.total_invested > 0
    THEN RoundCents(seller.total_invested * seller.total_invested
                        - inst.transfer_amount * seller.current_value,
                    seller.total_invested)
    ELSE {seller.total_invested}

\* total_invested after the proportional cost-basis deduction, as stored.
CostBasisAfter(seller, inst) ==
    IF seller.current_value > 0
    THEN RoundCents(seller.total_invested * (seller.current_value - inst.transfer_amount),
                    seller.current_value)
    ELSE {seller.total_invested}

IsFullExit(inst, cv) ==
    inst.transfer_type = "FULL" \/ cv < 1

\* The seller instance after "1. Update Seller's Investment"; ti is the
\* stored total_invested chosen from CostBasisAfter.
SellerAfter(seller, inst, ti) ==
    LET cv == seller.current_value - inst.transfer_amount
    IN  IF IsFullExit(inst, cv)
        THEN [seller EXCEPT !.status = "EXITED", !.current_value = 0, !.total_invested = 0]
        ELSE [seller EXCEPT !.current_value = cv, !.total_invested = ti]

SellerActivityType(inst) ==
    IF inst.transfer_type = "PARTIAL" THEN "PARTIAL_EXIT" ELSE "DISTRIBUTION"

\* Investment.objects.get_or_create(user=buyer, name=seller_investment.name):
\* the rows the lookup matches.
BuyerMatches(invs, buyer, name) ==
    {i \in 1..Len(invs) : invs[i].user = buyer /\ invs[i].name = name}

BuyerAfter(buyer, inst) ==
    [buyer EXCEPT !.total_invested = @ + inst.transfer_amount,
                  !.current_value = @ + inst.transfer_amount]

\* create_performance_snapshot, the post_save receiver of Investment, for
\* a save of investment i as inst on day d: a row is added when the value
\* is positive and the investment has no snapshot of that day.
SnapshotExists(snaps, i, d) ==
    \E k \in 1..Len(snaps) : snaps[k].investment = i /\ snaps[k].date = d

SnapshotOnSave(snaps, i, inst, d) ==
    IF inst.current_value > 0 /\ ~SnapshotExists(snaps, i, d)
    THEN Append(snaps, PerformanceSnapshot(i, d, inst.current_value))
    ELSE snaps

\* The database as one value, so that the writes of the atomic block can be
\* composed and rolled back.
Db == [inv |-> investments, act |-> activities, tr |-> transfers, snap |-> snapshots]

\* State of the database after the first k writes of the atomic block of
\* request record q, applied to d.
WriteSeller(d, q) ==
    [d EXCEPT !.inv[q.seller_pk] = q.seller,
              !.snap = SnapshotOnSave(@, q.seller_pk, q.seller, today)]

WriteSellerActivity(d, q) ==
    [d EXCEPT !.act = Append(@, CapitalActivity(q.seller_pk, SellerActivityType(q.inst),
                                                 q.inst.transfer_amount, q.tid))]

BuyerPk(d, q) ==
    IF q.buyer_pk = 0 THEN Len(d.inv) + 1 ELSE q.buyer_pk

WriteBuyerCreate(d, q) ==
    IF q.buyer_pk = 0
    THEN [d EXCEPT !.inv = Append(@, Investment(q.inst.to_user, q.seller.name, "ACTIVE", 0, 0))]
    ELSE d

WriteBuyer(d, q, bpk) ==
    [d EXCEPT !.inv[bpk] = BuyerAfter(q.buyer, q.inst),
              !.snap = SnapshotOnSave(@, bpk, BuyerAfter(q.buyer, q.inst), today)]

WriteBuyerActivity(d, q, bpk) ==
    [d EXCEPT !.act = Append(@, CapitalActivity(bpk, "INITIAL_INVESTMENT",
                                                 0 - q.inst.transfer_amount, q.tid))]

WriteFlag(d, q) ==
    [d EXCEPT !.tr[q.tid].is_processed = TRUE, !.tr[q.tid].completion_date = TRUE]

\* Steps of the atomic block that can raise: 1 seller save, 2 seller
\* activity, 3 buyer get_or_create, 4 buyer save, 5 buyer activity, 6 flag
\* update, 7 audit logging.  0 = nothing raises.
FailPoints == 0..7

\* Database contents written by the block when step fail raises (all writes
\* when fail = 0).
Written(d, q, fail) ==
    LET d1 == WriteSeller(d, q)
        d2 == WriteSellerActivity(d1, q)
        bpk == BuyerPk(d2, q)
        d3 == WriteBuyerCreate(d2, q)
        d4 == WriteBuyer(d3, q, bpk)
        d5 == WriteBuyerActivity(d4, q, bpk)
        d6 == WriteFlag(d5, q)
    IN  CASE fail = 1 -> d
          [] fail = 2 -> d1
          [] fail = 3 -> d2
          [] fail = 4 -> d3
          [] fail = 5 -> d4
          [] fail = 6 -> d5
          [] OTHER -> d6

AtomicNoRollback(before, written, fail) ==
    written

\* with transaction.atomic(): the writes are committed together when the
\* block ends normally and discarded when an exception leaves it.
Atomic(before, written, fail) ==
    IF fail = 0 THEN written ELSE before


\* --------------------------------------------- transfer API (views.py)
VisibleToStaff(u, tr) ==
    u \in Staff \/ tr.from_user = u \/ tr.to_user = u

\* OwnershipTransferViewSet.get_queryset: the transfers get_object() finds.
Visible(u, tr) ==
    tr.from_user = u \/ tr.to_user = u

\* OwnershipTransferCreateSerializer.validate, on the database it reads.
ValidateCreate(u, i, tu, email, ty, pct, amt, invs, trs) ==
    /\ invs[i].user = u
    /\ invs[i].status \in TransferableStatus
    /\ (tu # NoUser \/ email)
    /\ tu # u
    /\ (ty = "PARTIAL" => (pct # 0 /\ 0 < pct /\ pct <= 100))
    /\ amt > 0
    /\ ~\E t \in 1..Len(trs) :
          /\ trs[t].investment = i
          /\ trs[t].from_user = u
          /\ trs[t].status \in Outstanding

CanSubmit(u, tr) ==
    tr.from_user = u /\ tr.status = "DRAFT"

CanApprove(u, tr) ==
    u \in Staff /\ tr.status = "PENDING"

CanComplete(u, tr) ==
    u \in Staff /\ tr.status = "APPROVED"

CanCancel(u, tr) ==
    tr.from_user = u /\ tr.status \in {"DRAFT", "PENDING"}

PendingCreates ==
    Cardinality({r \in Reqs : req[r].pc = "loaded" /\ req[r].op = "create"})

\* A request is served by the first free worker slot.
FreeSlot(r) ==
    /\ req[r].pc = "idle"
    /\ \A o \in Reqs : o < r => req[o].pc # "idle"

\* POST /transfers/: the serializer validates the payload; the instance is
\* built from it with from_user = caller.  status is a writable field.
BeginCreate(r, u, i, tu, email, ty, pct, amt, st) ==
    /\ FreeSlot(r)
    /\ Len(transfers) + PendingCreates < MaxTransfers
    /\ ValidateCreate(u, i, tu, email, ty, pct, amt, investments, transfers)
    /\ req' = [req EXCEPT ![r] =
                 [Idle EXCEPT !.pc = "loaded", !.op = "create", !.user = u,
                              !.inst = OwnershipTransfer(i, u, tu, ty, amt, st),
                              !.seller_pk = i, !.seller = investments[i]]]
    /\ UNCHANGED <<investments, activities, transfers, snapshots, today, calc>>

\* get_object() (with select_related('investment')) followed by the checks
\* of a transition and the assignment of the new status to the instance.
Load(r, u, t, op, st) ==
    /\ FreeSlot(r)
    /\ t \in TransferIds
    /\ Visible(u, transfers[t])
    /\ req' = [req EXCEPT ![r] =
                 [Idle EXCEPT !.pc = "loaded", !.op = op, !.user = u, !.tid = t,
                              !.inst = [transfers[t] EXCEPT !.status = st],
                              !.seller_pk = transfers[t].investment,
                              !.seller = investments[transfers[t].investment]]]
    /\ UNCHANGED <<investments, activities, transfers, snapshots, today, calc>>

BeginSubmit(r, u, t) ==
    /\ t \in TransferIds
    /\ CanSubmit(u, transfers[t])
    /\ Load(r, u, t, "submit", "PENDING")

BeginApprove(r, u, t) ==
    /\ t \in TransferIds
    /\ CanApprove(u, transfers[t])
    /\ Load(r, u, t, "approve", "APPROVED")

BeginComplete(r, u, t) ==
    /\ t \in TransferIds
    /\ CanComplete(u, transfers[t])
    /\ Load(r, u, t, "complete", "COMPLETED")

BeginCancel(r, u, t) ==
    /\ t \in TransferIds
    /\ CanCancel(u, transfers[t])
    /\ Load(r, u, t, "cancel", "CANCELLED")

\* PUT /transfers/{id}/ (ModelViewSet.update with the create serializer)
\* re-sending the stored representation of the transfer: get_object(),
\* then validate() on the payload, then save().  The stored recipient and
\* percentage are the ones a validation accepted.
BeginUpdate(r, u, t) ==
    /\ t \in TransferIds
    /\ ValidateCreate(u, transfers[t].investment, transfers[t].to_user, TRUE,
                      transfers[t].transfer_type, 50,
                      transfers[t].transfer_amount, investments, transfers)
    /\ Load(r, u, t, "update", transfers[t].status)

\* transfer_fee and net_amount as OwnershipTransfer.save() computes them
\* (amount * 0.025 and amount minus that product, both unrounded) and as
\* the two-decimal columns then store them.
StoredFee(inst, m) ==
    [inst EXCEPT !.transfer_fee = Quantize(inst.transfer_amount * 25, 1000, m),
                 !.net_amount = Quantize(inst.transfer_amount * 975, 1000, m)]

\* OwnershipTransfer.save(): the fee and net amount are recomputed, then
\* every column of the row is written from the instance (a new row for a
\* create); post_save then calls handle_transfer_completion, whose early
\* returns read only the instance.
Save(r) ==
    /\ req[r].pc = "loaded"
    /\ \E m \in RoundingModes :
         LET q == req[r]
             t == IF q.op = "create" THEN Len(transfers) + 1 ELSE q.tid
             row == StoredFee(q.inst, m)
         IN  /\ transfers' = IF q.op = "create"
                             THEN Append(transfers, row)
                             ELSE [transfers EXCEPT ![t] = row]
             /\ req' = [req EXCEPT ![r] =
                          IF HandlerProceeds(q.inst, q.seller)
                          THEN [q EXCEPT !.pc = "settling", !.tid = t]
                          ELSE Idle]
    /\ UNCHANGED <<investments, activities, snapshots, today, calc>>

\* A row updated inside an open transaction is locked until the
\* transaction ends.
SellerLocked(r) ==
    \E o \in Reqs \ {r} : req[o].pc = "tx_open" /\ req[o].seller_pk = req[r].seller_pk

\* Start of the atomic block up to get_or_create: the seller instance is
\* updated and saved, then the buyer's investment is looked up.
TxOpen(r) ==
    /\ req[r].pc = "settling"
    /\ Len(activities) < 2 * MaxSettlements
    /\ ~SellerLocked(r)
    /\ \E ti \in CostBasisAfter(req[r].seller, req[r].inst) :
         LET q == req[r]
             seller == SellerAfter(q.seller, q.inst, ti)
             seen == [investments EXCEPT ![q.seller_pk] = seller]
             found == BuyerMatches(seen, q.inst.to_user, seller.name)
         IN  req' = [req EXCEPT ![r] =
                       IF Cardinality(found) > 1
                       THEN Idle
                       ELSE IF found = {}
                       THEN [q EXCEPT !.pc = "tx_open", !.seller = seller, !.buyer_pk = 0,
                                      !.buyer = Investment(q.inst.to_user, seller.name, "ACTIVE", 0, 0)]
                       ELSE LET b == CHOOSE i \in found : TRUE
                            IN  [q EXCEPT !.pc = "tx_open", !.seller = seller, !.buyer_pk = b,
                                          !.buyer = seen[b]]]
    /\ UNCHANGED <<investments, activities, transfers, snapshots, today, calc>>

\* End of the atomic block: commit of all its writes, or rollback when one
\* of its steps raised (the except clause only logs).
TxCommit(r, fail) ==
    /\ req[r].pc = "tx_open"
    /\ LET d == Atomic(Db, Written(Db, req[r], fail), fail)
       IN  /\ investments' = d.inv
           /\ activities' = d.act
           /\ transfers' = d.tr
           /\ snapshots' = d.snap
    /\ req' = [req EXCEPT ![r] = Idle]
    /\ UNCHANGED <<today, calc>>

Recipients == Users \cup {NoUser}

\* Concurrent requests of the transfer API.  Create payloads name the
\* recipient by to_user or else by to_email, and carry a percentage exactly
\* when the transfer is PARTIAL.
Next ==
    \E r \in Reqs :
        \/ \E i \in InvestmentIds, tu \in Recipients,
              ty \in TRANSFER_TYPE_CHOICES, amt \in 1..MaxAmount, st \in STATUS_CHOICES :
                BeginCreate(r, investments[i].user, i, tu, tu = NoUser, ty,
                            IF ty = "PARTIAL" THEN 50 ELSE 0, amt, st)
        \/ \E u \in Users, t \in TransferIds : BeginSubmit(r, u, t)
        \/ \E u \in Users, t \in TransferIds : BeginApprove(r, u, t)
        \/ \E u \in Users, t \in TransferIds : BeginComplete(r, u, t)
        \/ \E u \in Users, t \in TransferIds : BeginCancel(r, u, t)
        \/ \E u \in Users, t \in TransferIds : BeginUpdate(r, u, t)
        \/ Save(r)
        \/ TxOpen(r)
        \/ \E fail \in FailPoints : TxCommit(r, fail)

Spec == Init /\ [][Next]_vars


\* The concurrent transfer API on one investment bought at its current
\* value, large enough for two partial transfers that both leave a residue.
SeedInit ==
    /\ investments = <<Investment("u1", "X", "ACTIVE", SeedValue, SeedValue)>>
    /\ activities = <<>>
    /\ transfers = <<>>
    /\ req = [r \in Reqs |-> Idle]
    /\ snapshots = CreationSnapshots(investments, 1)
    /\ today = 1
    /\ calc = NoCalc

SeedSpec == SeedInit /\ [][Next]_vars


\* ------------------------------------------- one request at a time
Sequential ==
    \A o \in Reqs : req[o].pc = "idle"

\* PUT /transfers/{id}/ with any payload: get_object(), validate() on the
\* payload, ModelSerializer.update() assigns the validated fields to the
\* instance (from_user is not a field of the serializer), then save().
BeginPut(r, u, t, i, tu, email, ty, pct, amt, st) ==
    /\ FreeSlot(r)
    /\ t \in TransferIds
    /\ Visible(u, transfers[t])
    /\ ValidateCreate(u, i, tu, email, ty, pct, amt, investments, transfers)
    /\ req' = [req EXCEPT ![r] =
                 [Idle EXCEPT !.pc = "loaded", !.op = "update", !.user = u, !.tid = t,
                              !.inst = [transfers[t] EXCEPT !.investment = i, !.to_user = tu,
                                                            !.transfer_type = ty,
                                                            !.transfer_amount = amt,
                                                            !.status = st],
                              !.seller_pk = i, !.seller = investments[i]]]
    /\ UNCHANGED <<investments, activities, transfers, snapshots, today, calc>>

\* The transfer API served one request at a time, with every payload.
ApiNext ==
    \E r \in Reqs :
        \/ /\ Sequential
           /\ Len(transfers) < MaxApiTransfers
           /\ \E u \in Users, i \in InvestmentIds, tu \in Recipients, email \in BOOLEAN,
                 ty \in TRANSFER_TYPE_CHOICES, pct \in Percentages,
                 amt \in 1..MaxAmount, st \in STATUS_CHOICES :
                   BeginCreate(r, u, i, tu, email, ty, pct, amt, st)
        \/ Sequential /\ \E u \in Users, t \in TransferIds : BeginSubmit(r, u, t)
        \/ Sequential /\ \E u \in Users, t \in TransferIds : BeginApprove(r, u, t)
        \/ Sequential /\ \E u \in Users, t \in TransferIds : BeginComplete(r, u, t)
        \/ Sequential /\ \E u \in Users, t \in TransferIds : BeginCancel(r, u, t)
        \/ /\ Sequential
           /\ \E u \in Users, t \in TransferIds, i \in InvestmentIds, tu \in Recipients,
                 email \in BOOLEAN, ty \in TRANSFER_TYPE_CHOICES, pct \in Percentages,
                 amt \in 1..MaxAmount, st \in STATUS_CHOICES :
                   BeginPut(r, u, t, i, tu, email, ty, pct, amt, st)
        \/ Save(r)
        \/ TxOpen(r)
        \/ \E fail \in FailPoints : TxCommit(r, fail)

ApiSpec == Init /\ [][ApiNext]_vars


\* ------------------------------------------------ fee computation alone
\* A transfer instance about to be saved, new or loaded from its row, with
\* any amount and any fee and net amount supplied or stored before.
FeeInit ==
    /\ investments = <<Investment("u1", "X", "ACTIVE", InitMax, InitMax)>>
    /\ snapshots = CreationSnapshots(investments, 1)
    /\ today = 1
    /\ calc = NoCalc
    /\ activities = <<>>
    /\ \E amt \in 1..MaxFeeAmount, op \in {"create", "update"} :
       \E fee \in {0, amt}, net \in {0, amt} :
          LET inst == [OwnershipTransfer(1, "u1", NoUser, "FULL", amt, "DRAFT")
                          EXCEPT !.transfer_fee = fee, !.net_amount = net]
          IN  /\ transfers = IF op = "create" THEN <<>> ELSE <<inst>>
              /\ req = [r \in Reqs |->
                           IF r = 1
                           THEN [Idle EXCEPT !.pc = "loaded", !.op = op, !.user = "u1",
                                             !.tid = IF op = "create" THEN 0 ELSE 1,
                                             !.inst = inst, !.seller_pk = 1,
                                             !.seller = Investment("u1", "X", "ACTIVE",
                                                                   InitMax, InitMax)]
                           ELSE Idle]

FeeNext ==
    \E r \in Reqs : Save(r)

FeeSpec == FeeInit /\ [][FeeNext]_vars


\* ------------------------------------- capital-activity API (views.py)
ActivityAmounts == {-1, 0, 1}

\* CapitalActivitySerializer.validate_amount; ty is the activity_type the
\* payload carries, "" when the payload has none.
ValidateAmount(ty, value) ==
    IF ty \in {"INITIAL_INVESTMENT", "CAPITAL_CALL"}
    THEN IF value > 0 THEN 0 - value ELSE value
    ELSE IF ty \in {"DISTRIBUTION", "PARTIAL_EXIT"}
    THEN IF value < 0 THEN 0 - value ELSE value
    ELSE value

\* CapitalActivityViewSet.get_queryset: the rows get_object() finds.
ActivityVisible(u, k) ==
    /\ k \in 1..Len(activities)
    /\ activities[k] # NoActivity
    /\ investments[activities[k].investment].user = u

\* POST /capital-activities/
ActivityCreate(u, i, ty, amt) ==
    /\ Len(activities) < MaxLedgerRows
    /\ activities' = Append(activities, CapitalActivity(i, ty, ValidateAmount(ty, amt), 0))
    /\ UNCHANGED <<investments, transfers, req, snapshots, today, calc>>

\* PUT /capital-activities/{id}/
ActivityUpdate(u, k, i, ty, amt) ==
    /\ ActivityVisible(u, k)
    /\ activities' = [activities EXCEPT ![k] =
                        [@ EXCEPT !.investment = i, !.activity_type = ty,
                                  !.amount = ValidateAmount(ty, amt)]]
    /\ UNCHANGED <<investments, transfers, req, snapshots, today, calc>>

\* PATCH /capital-activities/{id}/ with a payload that carries
\* activity_type when hasTy and amount when hasAmt.
ActivityPartialUpdate(u, k, hasTy, ty, hasAmt, amt) ==
    /\ ActivityVisible(u, k)
    /\ activities' = [activities EXCEPT ![k] =
                        [@ EXCEPT !.activity_type = IF hasTy THEN ty ELSE @,
                                  !.amount = IF hasAmt
                                             THEN ValidateAmount(IF hasTy THEN ty ELSE "", amt)
                                             ELSE @]]
    /\ UNCHANGED <<investments, transfers, req, snapshots, today, calc>>

\* DELETE /capital-activities/{id}/
ActivityDestroy(u, k) ==
    /\ ActivityVisible(u, k)
    /\ activities' = [activities EXCEPT ![k] = NoActivity]
    /\ UNCHANGED <<investments, transfers, req, snapshots, today, calc>>

\* The ledger when the API is used: empty, or holding the two rows of a
\* settled FULL transfer of u1's investment to u2.
LedgerInit ==
    /\ req = [r \in Reqs |-> Idle]
    /\ today = 1
    /\ calc = NoCalc
    /\ \/ /\ investments = <<Investment("u1", "X", "ACTIVE", InitMax, InitMax),
                            Investment("u2", "X", "ACTIVE", InitMax, InitMax)>>
          /\ activities = <<>>
          /\ transfers = <<>>
          /\ snapshots = CreationSnapshots(investments, 1)
       \/ /\ investments = <<Investment("u1", "X", "EXITED", 0, 0),
                            Investment("u2", "X", "ACTIVE", MaxAmount, MaxAmount)>>
          /\ activities = <<CapitalActivity(1, "DISTRIBUTION", MaxAmount, 1),
                           CapitalActivity(2, "INITIAL_INVESTMENT", 0 - MaxAmount, 1)>>
          /\ transfers = <<[StoredFee(OwnershipTransfer(1, "u1", "u2", "FULL", MaxAmount,
                                                       "COMPLETED"), "ROUND_HALF_EVEN")
                              EXCEPT !.is_processed = TRUE, !.completion_date = TRUE]>>
          /\ snapshots = <<PerformanceSnapshot(1, 0, MaxAmount),
                          PerformanceSnapshot(2, today, MaxAmount)>>

LedgerNext ==
    \E u \in Users :
        \/ \E i \in InvestmentIds, ty \in ACTIVITY_TYPE_CHOICES, amt \in ActivityAmounts :
              ActivityCreate(u, i, ty, amt)
        \/ \E k \in 1..Len(activities), i \in InvestmentIds,
              ty \in ACTIVITY_TYPE_CHOICES, amt \in ActivityAmounts :
              ActivityUpdate(u, k, i, ty, amt)
        \/ \E k \in 1..Len(activities), hasTy \in BOOLEAN, ty \in ACTIVITY_TYPE_CHOICES,
              hasAmt \in BOOLEAN, amt \in ActivityAmounts :
              ActivityPartialUpdate(u, k, hasTy, ty, hasAmt, amt)
        \/ \E k \in 1..Len(activities) : ActivityDestroy(u, k)

LedgerSpec == LedgerInit /\ [][LedgerNext]_vars


\* ------------------------------------------------------------ properties
\* The ledger rows settlement has written for transfer t (the transfer id
\* is part of each row's details).
SellerActivities(t) ==
    {k \in 1..Len(activities) :
        activities[k].transfer = t /\ activities[k].activity_type # "INITIAL_INVESTMENT"}

BuyerActivities(t) ==
    {k \in 1..Len(activities) :
        activities[k].transfer = t /\ activities[k].activity_type = "INITIAL_INVESTMENT"}

\* Request r takes the step.
Steps(r) ==
    req'[r] # req[r]

\* Request r leaves the atomic block with its writes committed.
Commits(r) ==
    req[r].pc = "tx_open" /\ req'[r].pc = "idle" /\ activities' # activities

\* C1: concurrent Complete requests on one APPROVED transfer settle it
\* exactly once: a Complete request that reaches the end of the settlement
\* block of a transfer whose settlement is already in the ledger performs no
\* mutation, and no transfer has more than one seller or buyer activity.
C1_CompleteSettlesOnce ==
    [][\A r \in Reqs :
          (req[r].op = "complete" /\ req[r].pc = "tx_open" /\ Steps(r)
              /\ SellerActivities(req[r].tid) # {})
          => /\ investments' = investments
             /\ activities' = activities
             /\ \A t \in TransferIds :
                   /\ Cardinality(SellerActivities(t)) <= 1
                   /\ Cardinality(BuyerActivities(t)) <= 1]_vars

\* C2: a request that has loaded a settled transfer (is_processed = true)
\* and saves it changes no investment and no activity, and leaves the
\* transfer settled with its completion date.
C2_SettledResaveIsNoOp ==
    [][\A r \in Reqs :
          (req[r].pc # "idle" /\ req[r].inst.is_processed /\ Steps(r))
          => /\ investments' = investments
             /\ activities' = activities
             /\ req'[r] = Idle
             /\ transfers'[req[r].tid].is_processed
             /\ transfers'[req[r].tid].completion_date]_vars

C2_Witness ==
    \E r \in Reqs :
        /\ req[r].pc = "loaded"
        /\ req[r].op = "update"
        /\ req[r].inst.is_processed
        /\ req[r].inst.status = "COMPLETED"

\* C3: every committed settlement lowers the seller investment's
\* current_value by transfer_amount and raises the buyer investment's
\* current_value by transfer_amount.
C3_Conservation ==
    [][\A r \in Reqs :
          Commits(r)
          => LET s == req[r].seller_pk
                 b == BuyerPk(Db, req[r])
                 before == IF req[r].buyer_pk = 0 THEN 0 ELSE investments[b].current_value
             IN  /\ investments[s].current_value - investments'[s].current_value
                       = req[r].inst.transfer_amount
                 /\ investments'[b].current_value - before
                       = req[r].inst.transfer_amount]_vars

\* C4: a request inside the settlement block changes the database only by
\* committing all of the block's writes at once; when a step of the block
\* raises, investments, activities and transfers keep their values.
C4_AllOrNothing ==
    [][\A r \in Reqs :
          (req[r].pc \in {"settling", "tx_open"} /\ Steps(r))
          => LET all == Written(Db, req[r], 0)
             IN  \/ /\ investments' = investments
                    /\ activities' = activities
                    /\ transfers' = transfers
                 \/ /\ investments' = all.inv
                    /\ activities' = all.act
                    /\ transfers' = all.tr]_vars

\* A settlement that passed every check was rolled back: the transfer is
\* COMPLETED and unprocessed, nothing is in flight and nothing was written.
C4_Witness ==
    /\ activities = <<>>
    /\ \A r \in Reqs : req[r].pc = "idle"
    /\ \E t \in TransferIds :
          /\ transfers[t].status = "COMPLETED"
          /\ ~transfers[t].is_processed
          /\ transfers[t].to_user # NoUser
          /\ transfers[t].transfer_amount <= investments[transfers[t].investment].current_value
          /\ Len(investments) = 1


\* The save of request r makes its transfer COMPLETED (a new row, or a row
\* whose stored status was not COMPLETED).
BecomesCompleted(r) ==
    /\ req[r].pc = "loaded"
    /\ Steps(r)
    /\ req[r].inst.status = "COMPLETED"
    /\ (req[r].op = "create" \/ transfers[req[r].tid].status # "COMPLETED")

SavedId(r) ==
    IF req[r].op = "create" THEN Len(transfers') ELSE req[r].tid

\* C5: when a transfer becomes COMPLETED with transfer_amount above the
\* seller investment's current_value, the handler rejects the settlement:
\* no investment and no activity changes, and the transfer is COMPLETED
\* with is_processed = false.
C5_ExceedingAmountRejected ==
    [][\A r \in Reqs :
          (BecomesCompleted(r)
              /\ req[r].inst.transfer_amount > investments[req[r].seller_pk].current_value)
          => /\ req'[r] = Idle
             /\ investments' = investments
             /\ activities' = activities
             /\ transfers'[SavedId(r)].status = "COMPLETED"
             /\ ~transfers'[SavedId(r)].is_processed]_vars

\* C6: a transfer without a registered recipient is never settled: it is
\* never processed, has no completion date and no ledger row refers to it.
C6_ExternalRecipientNeverSettles ==
    \A t \in TransferIds :
        transfers[t].to_user = NoUser
        => /\ ~transfers[t].is_processed
           /\ ~transfers[t].completion_date
           /\ SellerActivities(t) = {}
           /\ BuyerActivities(t) = {}

\* A COMPLETED transfer to an external recipient that has been saved again.
C6_Witness ==
    \E t \in TransferIds, r \in Reqs :
        /\ transfers[t].to_user = NoUser
        /\ transfers[t].status = "COMPLETED"
        /\ req[r].pc = "loaded"
        /\ req[r].op = "update"
        /\ req[r].tid = t

\* C7: a committed settlement of a FULL transfer, or one that leaves the
\* seller's current_value below one cent, leaves the seller investment
\* EXITED with zero balances; any other committed settlement leaves the
\* seller investment's status as it was.
C7_FullExitRule ==
    [][\A r \in Reqs :
          Commits(r)
          => LET s == req[r].seller_pk
             IN  IF req[r].inst.transfer_type = "FULL" \/ investments'[s].current_value < 1
                 THEN /\ investments'[s].status = "EXITED"
                      /\ investments'[s].current_value = 0
                      /\ investments'[s].total_invested = 0
                 ELSE investments'[s].status = investments[s].status]_vars

\* C8: every EXITED investment has zero balances.
C8_ExitedIsEmpty ==
    \A i \in InvestmentIds :
        investments[i].status = "EXITED"
        => investments[i].total_invested = 0 /\ investments[i].current_value = 0

AllowedTransitions ==
    {<<"DRAFT", "PENDING">>, <<"PENDING", "APPROVED">>, <<"APPROVED", "COMPLETED">>,
     <<"DRAFT", "CANCELLED">>, <<"PENDING", "CANCELLED">>}

\* C10: every transfer row is created in DRAFT and its stored status only
\* changes along submit, approve, complete and cancel.
C10_LifecycleOnly ==
    [][\A t \in 1..Len(transfers') :
          IF t > Len(transfers)
          THEN transfers'[t].status = "DRAFT"
          ELSE \/ transfers'[t].status = transfers[t].status
               \/ <<transfers[t].status, transfers'[t].status>> \in AllowedTransitions]_vars

\* C11: investments and activities change only in the commit of a request
\* that performs the complete transition (APPROVED -> COMPLETED) of a
\* transfer that has not been settled before; no other operation settles.
C11_OnlyCompleteSettles ==
    [][(investments' # investments \/ activities' # activities)
          => \E r \in Reqs :
                /\ req[r].pc = "tx_open"
                /\ req'[r].pc = "idle"
                /\ req[r].op = "complete"
                /\ SellerActivities(req[r].tid) = {}
                /\ BuyerActivities(req[r].tid) = {}]_vars

\* C13: each (investment, from_user) pair has at most one transfer in
\* DRAFT, PENDING or APPROVED.
C13_OneOutstanding ==
    \A t1, t2 \in TransferIds :
        (/\ transfers[t1].investment = transfers[t2].investment
         /\ transfers[t1].from_user = transfers[t2].from_user
         /\ transfers[t1].status \in Outstanding
         /\ transfers[t2].status \in Outstanding)
        => t1 = t2

Terminal == {"COMPLETED", "CANCELLED", "REJECTED"}

\* C12: a transfer whose stored status is COMPLETED, CANCELLED or REJECTED
\* keeps its status, investment, recipient, type and amount in every step.
C12_TerminalImmutable ==
    [][\A t \in TransferIds :
          transfers[t].status \in Terminal
          => /\ transfers'[t].status = transfers[t].status
             /\ transfers'[t].investment = transfers[t].investment
             /\ transfers'[t].to_user = transfers[t].to_user
             /\ transfers'[t].transfer_type = transfers[t].transfer_type
             /\ transfers'[t].transfer_amount = transfers[t].transfer_amount]_vars

\* The actor and the stored status a transition expects.
ExpectedActor(op, u, tr) ==
    IF op \in {"submit", "cancel"} THEN tr.from_user = u ELSE u \in Staff

ExpectedPreState(op) ==
    CASE op = "submit" -> {"DRAFT"}
      [] op = "approve" -> {"PENDING"}
      [] op = "complete" -> {"APPROVED"}
      [] OTHER -> {"DRAFT", "PENDING"}

\* C14: submit, approve, complete and cancel take effect only for the
\* expected actor and only when the transfer's current status is the
\* expected pre-state; otherwise the request fails and changes nothing.
C14_TransitionsGuarded ==
    [][\A r \in Reqs :
          (/\ req[r].pc = "loaded"
           /\ req[r].op \in {"submit", "approve", "complete", "cancel"}
           /\ transfers' # transfers)
          => /\ ExpectedActor(req[r].op, req[r].user, transfers[req[r].tid])
             /\ transfers[req[r].tid].status \in ExpectedPreState(req[r].op)]_vars

\* C15: the row written by a save has transfer_fee = 2.5% of
\* transfer_amount to the cent, and net_amount = transfer_amount -
\* transfer_fee, whatever fee and net amount the instance carried.
C15_FeeRecomputed ==
    [][\A r \in Reqs :
          (req[r].pc = "loaded" /\ Steps(r))
          => LET row == transfers'[SavedId(r)]
             IN  /\ row.transfer_fee \in RoundCents(row.transfer_amount * 25, 1000)
                 /\ row.net_amount = row.transfer_amount - row.transfer_fee]_vars

\* C16: the amount of every stored CapitalActivity has the sign of its
\* type: INITIAL_INVESTMENT and CAPITAL_CALL are <= 0, DISTRIBUTION and
\* PARTIAL_EXIT are >= 0.
C16_SignMatchesType ==
    \A k \in 1..Len(activities) :
        /\ activities[k].activity_type \in {"INITIAL_INVESTMENT", "CAPITAL_CALL"}
              => activities[k].amount <= 0
        /\ activities[k].activity_type \in {"DISTRIBUTION", "PARTIAL_EXIT"}
              => activities[k].amount >= 0

\* C17: the ledger is append-only: every row keeps its investment, type and
\* amount, and no row is removed.
C17_LedgerAppendOnly ==
    [][/\ Len(activities') >= Len(activities)
       /\ \A k \in 1..Len(activities) : activities'[k] = activities[k]]_vars

\* C18: a committed PARTIAL settlement with transfer_amount below the
\* seller investment's current_value lowers the seller's current_value by
\* transfer_amount and its total_invested by total_invested *
\* transfer_amount / current_value (to the cent), raises current_value and
\* total_invested of the recipient's investment of the same name by
\* transfer_amount (a new ACTIVE row counting from zero when there was
\* none), appends PARTIAL_EXIT +transfer_amount for the seller and
\* INITIAL_INVESTMENT -transfer_amount for the buyer, and marks the transfer
\* processed.
C18_PartialSettlement ==
    [][\A r \in Reqs :
          LET s == req[r].seller_pk
              b == BuyerPk(Db, req[r])
              amt == req[r].inst.transfer_amount
              t == req[r].tid
              old == IF req[r].buyer_pk = 0
                     THEN Investment(req[r].inst.to_user, investments[s].name, "ACTIVE", 0, 0)
                     ELSE investments[b]
          IN  (/\ Commits(r)
               /\ req[r].inst.transfer_type = "PARTIAL"
               /\ amt < investments[s].current_value)
              => /\ investments'[s].current_value = investments[s].current_value - amt
                 /\ investments'[s].total_invested \in
                       RoundCents(investments[s].total_invested
                                      * (investments[s].current_value - amt),
                                  investments[s].current_value)
                 /\ investments'[b] = BuyerAfter(old, req[r].inst)
                 /\ investments'[b].user = req[r].inst.to_user
                 /\ investments'[b].name = investments[s].name
                 /\ activities' = activities
                       \o <<CapitalActivity(s, "PARTIAL_EXIT", amt, t),
                            CapitalActivity(b, "INITIAL_INVESTMENT", 0 - amt, t)>>
                 /\ transfers'[t].is_processed]_vars

\* C19: a POST /transfers/ request writes a transfer row only when, on the
\* stored data at that moment, the caller owns the investment, the
\* investment is ACTIVE or UNDERPERFORMING, to_user is not the caller,
\* transfer_amount is positive and the caller has no DRAFT, PENDING or
\* APPROVED transfer for that investment.
C19_CreateValidated ==
    [][\A r \in Reqs :
          (/\ req[r].pc = "loaded"
           /\ req[r].op = "create"
           /\ Len(transfers') = Len(transfers) + 1)
          => LET row == transfers'[Len(transfers')]
                 i == row.investment
                 u == row.from_user
             IN  /\ u = req[r].user
                 /\ investments[i].user = u
                 /\ investments[i].status \in TransferableStatus
                 /\ row.to_user # u
                 /\ row.transfer_amount > 0
                 /\ ~\E t \in 1..Len(transfers) :
                       /\ transfers[t].investment = i
                       /\ transfers[t].from_user = u
                       /\ transfers[t].status \in Outstanding]_vars

\* ------------------------------------------ portfolio aggregator (utils.py)
\* Investment.objects.filter(user=user, status__in=['ACTIVE',
\* 'UNDERPERFORMING']), on the stored rows.
ActiveInvestments(u) ==
    {i \in InvestmentIds :
        investments[i].user = u /\ investments[i].status \in TransferableStatus}

\* aggregate(Sum(...)) or Decimal('0.00').
RECURSIVE SumOf(_, _)
SumOf(S, f) ==
    IF S = {} THEN 0
    ELSE LET i == CHOOSE x \in S : TRUE IN f[i] + SumOf(S \ {i}, f)

CurrentValues == [i \in InvestmentIds |-> investments[i].current_value]
InvestedAmounts == [i \in InvestmentIds |-> investments[i].total_invested]

\* An unrounded Decimal quotient, kept as an exact fraction.
Ratio(n, d) == [num |-> n, den |-> d]

\* The weighted mean of the investments' XIRR is not computed here; the
\* empty portfolio and a portfolio without IRR values give 0.00.
IrrWeightedMean == "xirr"

calculate_portfolio_metrics(u) ==
    LET invs == ActiveInvestments(u)
        total_value == SumOf(invs, CurrentValues)
        total_invested == SumOf(invs, InvestedAmounts)
    IN  IF invs = {}
        THEN [total_value |-> 0, total_invested |-> 0, unrealized_gains |-> 0,
              unrealized_gains_percentage |-> Ratio(0, 1), average_irr |-> 0,
              num_investments |-> 0]
        ELSE [total_value |-> total_value, total_invested |-> total_invested,
              unrealized_gains |-> total_value - total_invested,
              unrealized_gains_percentage |->
                  IF total_invested > 0
                  THEN Ratio((total_value - total_invested) * 100, total_invested)
                  ELSE Ratio(0, 1),
              average_irr |-> IrrWeightedMean,
              num_investments |-> Cardinality(invs)]

\* Every investment of the model carries the sector of the seeded one (a
\* buyer's row copies the seller's), so the group-by has at most one row.
calculate_sector_allocation(u) ==
    LET total_value == SumOf(ActiveInvestments(u), CurrentValues)
    IN  IF total_value = 0 THEN <<>>
        ELSE <<[amount |-> total_value, percentage |-> Ratio(total_value * 100, total_value)]>>

\* The DISTRIBUTION and PARTIAL_EXIT rows of all the user's investments,
\* whatever their status.
Distributions(u) ==
    {k \in 1..Len(activities) :
        /\ activities[k].investment \in InvestmentIds
        /\ investments[activities[k].investment].user = u
        /\ activities[k].activity_type \in {"DISTRIBUTION", "PARTIAL_EXIT"}}

ActivityAmountOf == [k \in 1..Len(activities) |-> activities[k].amount]

calculate_returns_analysis(u) ==
    LET realized_gains == SumOf(Distributions(u), ActivityAmountOf)
        total_current_value == SumOf(ActiveInvestments(u), CurrentValues)
        total_invested == SumOf(ActiveInvestments(u), InvestedAmounts)
        unrealized_gains == total_current_value - total_invested
    IN  [realized_gains |-> realized_gains,
         unrealized_gains |-> unrealized_gains,
         total_return |-> realized_gains + unrealized_gains,
         total_invested |-> total_invested,
         total_current_value |-> total_current_value]

get_distribution_history(u) ==
    SelectSeq(activities,
              LAMBDA a : /\ a.investment \in InvestmentIds
                         /\ investments[a.investment].user = u
                         /\ a.activity_type \in {"DISTRIBUTION", "PARTIAL_EXIT"})

\* benchmark_return defaults to Decimal('10.0').
BenchmarkReturn == 10

calculate_alpha(u) ==
    LET portfolio_return == calculate_portfolio_metrics(u).unrealized_gains_percentage
    IN  Ratio(portfolio_return.num - BenchmarkReturn * portfolio_return.den,
              portfolio_return.den)

RECURSIVE TopValueUnordered(_, _)
TopValueUnordered(S, n) ==
    IF S = {} \/ n = 0 THEN 0
    ELSE LET i == CHOOSE x \in S : \A y \in S : x <= y
         IN  CurrentValues[i] + TopValueUnordered(S \ {i}, n - 1)

\* sum of the n largest current values: investments[:n] of the queryset
\* ordered by -current_value.
RECURSIVE TopValue(_, _)
TopValue(S, n) ==
    IF S = {} \/ n = 0 THEN 0
    ELSE LET i == CHOOSE x \in S : \A y \in S : CurrentValues[y] <= CurrentValues[x]
         IN  CurrentValues[i] + TopValue(S \ {i}, n - 1)

calculate_concentration_risk(u) ==
    LET invs == ActiveInvestments(u)
        total_value == SumOf(invs, CurrentValues)
        top_3_value == TopValue(invs, 3)
        top_5_value == TopValue(invs, 5)
    IN  IF invs = {} \/ total_value = 0
        THEN [top_3_concentration |-> Ratio(0, 1), top_5_concentration |-> Ratio(0, 1),
              risk_level |-> "Low"]
        ELSE [top_3_concentration |-> Ratio(top_3_value * 100, total_value),
              top_5_concentration |-> Ratio(top_5_value * 100, total_value),
              risk_level |-> IF top_3_value * 100 > 75 * total_value THEN "High"
                             ELSE IF top_3_value * 100 > 50 * total_value THEN "Medium"
                             ELSE "Low"]

\* impact_percentage of the four scenarios, in tenths of a percent.
StressImpacts == <<-128, -184, -92, -221>>

\* expected_loss = total_value * impact_percentage / 100 for each scenario.
calculate_stress_test_scenarios(u) ==
    LET total_value == calculate_portfolio_metrics(u).total_value
    IN  [k \in 1..Len(StressImpacts) |->
            [impact_percentage |-> StressImpacts[k],
             expected_loss |-> Ratio(total_value * StressImpacts[k], 1000)]]

\* C20: for a user with no ACTIVE or UNDERPERFORMING investment (none at
\* all, or only investments EXITED by full transfers) the portfolio metrics
\* are all zero and every aggregator returns a zero or empty result: no
\* sector allocation, zero concentration, zero returns analysis, no
\* distribution history, zero alpha and zero expected stress losses.
C20_EmptyPortfolioZero ==
    \A u \in Users :
        ActiveInvestments(u) = {}
        => /\ calculate_portfolio_metrics(u) =
                 [total_value |-> 0, total_invested |-> 0, unrealized_gains |-> 0,
                  unrealized_gains_percentage |-> Ratio(0, 1), average_irr |-> 0,
                  num_investments |-> 0]
           /\ calculate_sector_allocation(u) = <<>>
           /\ calculate_concentration_risk(u).top_3_concentration.num = 0
           /\ calculate_concentration_risk(u).top_5_concentration.num = 0
           /\ \A k \in 1..Len(StressImpacts) :
                 calculate_stress_test_scenarios(u)[k].expected_loss.num = 0
           /\ calculate_returns_analysis(u) =
                 [realized_gains |-> 0, unrealized_gains |-> 0, total_return |-> 0,
                  total_invested |-> 0, total_current_value |-> 0]
           /\ get_distribution_history(u) = <<>>
           /\ calculate_alpha(u).num = 0

\* ------------------------------------------------- XIRR solver (utils.py)
maxiter == 100

\* The early returns of xirr.
XirrRejectsMismatchOnly(dates, cash_flows) ==
    Len(dates) # Len(cash_flows)

XirrRejects(dates, cash_flows) ==
    Len(dates) # Len(cash_flows) \/ Len(dates) < 2

Abs(x) == IF x < 0 THEN 0 - x ELSE x

\* The cash-flow list calculate_investment_irr builds for investment i: the
\* activities of the investment, outflows negative and inflows positive,
\* then the current value.
RECURSIVE ActivityFlows(_, _)
ActivityFlows(i, k) ==
    IF k > Len(activities) THEN <<>>
    ELSE (IF activities[k].investment # i THEN <<>>
          ELSE IF activities[k].activity_type \in {"INITIAL_INVESTMENT", "CAPITAL_CALL"}
          THEN <<0 - Abs(activities[k].amount)>>
          ELSE <<Abs(activities[k].amount)>>) \o ActivityFlows(i, k + 1)

CashFlows(i) == Append(ActivityFlows(i, 1), investments[i].current_value)

\* What newton() can hand back without raising: a rate (in hundredths of a
\* percent), a non-finite float, or a complex number when 1 + rate went
\* negative under a fractional exponent.
NewtonResults ==
    {[kind |-> "rate", value |-> v] : v \in {-5000, 0, 1000}}
        \cup {[kind |-> "nan"], [kind |-> "complex"]}

\* Decimal(str(round(irr * 100, 2))): a TypeError for a complex number.
RoundRaises(res) == res.kind = "complex"

\* The value calculate_investment_irr returns for what xirr returned.
IrrOf(res) ==
    IF res.kind = "none" \/ RoundRaises(res)
    THEN [kind |-> "decimal", value |-> 0]
    ELSE IF res.kind = "nan" THEN [kind |-> "decimal_nan"]
    ELSE [kind |-> "decimal", value |-> res.value]

\* xirr has finished with res because of cause; a direct caller gets res,
\* calculate_investment_irr converts it.  escaped: an exception left xirr.
XirrReturns(c, res, cause, escaped) ==
    [c EXCEPT !.pc = "done", !.cause = cause,
              !.result = IF c.op = "irr" THEN IrrOf(res) ELSE res,
              !.raised = escaped /\ c.op = "xirr"]

CalcUnchanged == UNCHANGED <<investments, activities, transfers, req, snapshots, today>>

\* xirr(dates, cash_flows) called with any two lists.
XirrCall(dates, cash_flows) ==
    /\ calc.pc = "done"
    /\ calc' = [NoCalc EXCEPT !.op = "xirr", !.pc = "xirr",
                              !.dates = dates, !.cash_flows = cash_flows]
    /\ CalcUnchanged

\* calculate_investment_irr(investment) up to the call of xirr.
IrrCall(i) ==
    /\ calc.pc = "done"
    /\ calc' = IF \A k \in 1..Len(activities) : activities[k].investment # i
               THEN [NoCalc EXCEPT !.op = "irr", !.cause = "empty",
                                   !.result = [kind |-> "decimal", value |-> 0]]
               ELSE [NoCalc EXCEPT !.op = "irr", !.pc = "xirr",
                                   !.dates = [k \in 1..Len(CashFlows(i)) |-> today],
                                   !.cash_flows = CashFlows(i)]
    /\ CalcUnchanged

\* xirr up to the call of newton: the two early returns, then min(dates),
\* which raises on an empty list and is outside the try block.
XirrEnter ==
    /\ calc.pc = "xirr"
    /\ calc' = IF XirrRejects(calc.dates, calc.cash_flows)
               THEN XirrReturns(calc, NoResult,
                                IF Len(calc.dates) # Len(calc.cash_flows)
                                THEN "mismatch" ELSE "short", FALSE)
               ELSE IF Len(calc.dates) = 0
               THEN XirrReturns(calc, NoResult, "error", TRUE)
               ELSE [calc EXCEPT !.pc = "newton"]
    /\ CalcUnchanged

\* One iteration of newton that neither converges nor raises; after
\* maxiter such iterations newton raises RuntimeError, which xirr catches.
NewtonIterate ==
    /\ calc.pc = "newton"
    /\ calc' = IF calc.iter < maxiter
               THEN [calc EXCEPT !.iter = @ + 1]
               ELSE XirrReturns(calc, NoResult, "nonconvergence", FALSE)
    /\ CalcUnchanged

\* newton returns res, in one of its maxiter iterations.
NewtonConverge(res) ==
    /\ calc.pc = "newton"
    /\ calc.iter < maxiter
    /\ calc' = XirrReturns(calc, res, "converged", FALSE)
    /\ CalcUnchanged

\* The function evaluation raises (overflow, division by zero); the bare
\* except of xirr catches it.
NewtonRaise ==
    /\ calc.pc = "newton"
    /\ calc' = XirrReturns(calc, NoResult, "error", FALSE)
    /\ CalcUnchanged

Days == {0, 1}
FlowAmounts == {-1, 1}

Lists(S) == UNION {[1..n -> S] : n \in 0..MaxPoints}

IrrNext ==
    \/ \E dates \in Lists(Days), cash_flows \in Lists(FlowAmounts) :
          XirrCall(dates, cash_flows)
    \/ \E i \in InvestmentIds : IrrCall(i)
    \/ XirrEnter
    \/ NewtonIterate
    \/ \E res \in NewtonResults : NewtonConverge(res)
    \/ NewtonRaise

\* The solver on the ledgers of LedgerInit.
IrrSpec == LedgerInit /\ [][IrrNext]_vars

\* C21: no exception leaves xirr or calculate_investment_irr; xirr returns
\* the no-result sentinel when the lists differ in length, hold fewer than
\* two points or newton does not converge within maxiter iterations; and
\* calculate_investment_irr returns 0.00 for the sentinel, for an
\* investment without activities and for an internal error.
C21_SolverNeverRaises ==
    /\ ~calc.raised
    /\ (calc.pc = "done" /\ calc.op = "xirr"
          /\ (Len(calc.dates) # Len(calc.cash_flows) \/ Len(calc.dates) < 2
                 \/ calc.iter = maxiter))
       => calc.result = NoResult /\ ~calc.raised
    /\ (calc.pc = "done" /\ calc.op = "irr"
          /\ (calc.cause \in {"empty", "mismatch", "short", "nonconvergence", "error"}
                 \/ calc.iter = maxiter \/ Len(calc.cash_flows) < 2))
       => calc.result = [kind |-> "decimal", value |-> 0]

\* newton has used all its iterations and xirr has returned.
C21_Witness ==
    /\ calc.pc = "done"
    /\ calc.iter = maxiter
    /\ calc.cause = "nonconvergence"

\* ------------------------------------------ portfolios built by the API
\* Payloads of POST /investments/ that pass the field validators
\* (total_invested >= 0.01, current_value >= 0.00): caller, status and
\* current_value; total_invested is one cent.
PortfolioRows ==
    {<<"u1", "ACTIVE", 0>>, <<"u1", "ACTIVE", 1>>, <<"u1", "ACTIVE", 2>>,
     <<"u1", "UNDERPERFORMING", 1>>, <<"u1", "EXITED", 2>>, <<"u2", "ACTIVE", 2>>}

\* InvestmentViewSet.create: the row is inserted for the caller and the
\* post_save receiver takes its snapshot.
InvestmentCreate(u, st, cv) ==
    /\ Len(investments) < MaxPortfolio
    /\ investments' = Append(investments, Investment(u, "X", st, 1, cv))
    /\ snapshots' = SnapshotOnSave(snapshots, Len(investments) + 1,
                                   Investment(u, "X", st, 1, cv), today)
    /\ UNCHANGED <<activities, transfers, req, today, calc>>

\* GET /portfolio/risk_metrics/: the concentration part of the response.
GetConcentrationRisk(u) ==
    /\ calc' = [NoCalc EXCEPT !.op = "concentration_risk",
                              !.result = [user |-> u] @@ calculate_concentration_risk(u)]
    /\ UNCHANGED <<investments, activities, transfers, req, snapshots, today>>

PortfolioInit ==
    /\ investments = <<>>
    /\ activities = <<>>
    /\ transfers = <<>>
    /\ req = [r \in Reqs |-> Idle]
    /\ snapshots = <<>>
    /\ today = 1
    /\ calc = NoCalc

PortfolioNext ==
    \/ \E row \in PortfolioRows : InvestmentCreate(row[1], row[2], row[3])
    \/ \E u \in Users : GetConcentrationRisk(u)

PortfolioSpec == PortfolioInit /\ [][PortfolioNext]_vars

\* The largest total current_value of at most n of the investments S.
LargestOf(S, n) ==
    LET sums == {SumOf(T, CurrentValues) : T \in {T \in SUBSET S : Cardinality(T) <= n}}
    IN  CHOOSE m \in sums : \A x \in sums : x <= m

\* C22: the concentration response of a user gives the shares of the
\* user's total ACTIVE/UNDERPERFORMING current_value held by the 3 and by
\* the 5 largest of those investments, top-3 share <= top-5 share <= 100,
\* with tier High exactly when the top-3 share is above 75%, Medium exactly
\* when it is above 50% and at most 75%, and Low otherwise, a total value
\* of 0 included.
C22_ConcentrationRisk ==
    [][(calc' # calc /\ calc'.op = "concentration_risk")
          => LET res == calc'.result
                 invs == {i \in InvestmentIds :
                             /\ investments[i].user = res.user
                             /\ investments[i].status \in {"ACTIVE", "UNDERPERFORMING"}}
                 total == SumOf(invs, CurrentValues)
                 top3 == LargestOf(invs, 3)
                 top5 == LargestOf(invs, 5)
             IN  /\ res.top_3_concentration.num * total
                       = top3 * 100 * res.top_3_concentration.den
                 /\ res.top_5_concentration.num * total
                       = top5 * 100 * res.top_5_concentration.den
                 /\ total = 0 => /\ res.top_3_concentration.num = 0
                                 /\ res.top_5_concentration.num = 0
                 /\ res.top_3_concentration.num * res.top_5_concentration.den
                       <= res.top_5_concentration.num * res.top_3_concentration.den
                 /\ res.top_5_concentration.num <= 100 * res.top_5_concentration.den
                 /\ res.risk_level = "High" <=> top3 * 100 > 75 * total
                 /\ res.risk_level = "Medium"
                       <=> (top3 * 100 > 50 * total /\ top3 * 100 <= 75 * total)
                 /\ res.risk_level = "Low" <=> top3 * 100 <= 50 * total]_vars

\* A response with six holdings none of which dominates: the three largest
\* hold at most half of a positive total, and less than the five largest.
C22_Witness ==
    /\ calc.op = "concentration_risk"
    /\ calc.result.risk_level = "Low"
    /\ calc.result.top_3_concentration.num > 0
    /\ calc.result.top_3_concentration.num < calc.result.top_5_concentration.num

\* ------------------------------------------------ Complete and settlement
\* Request r, a Complete of a transfer to a registered user whose amount
\* is within the seller investment's stored current_value, returns.
CompleteReturns(r) ==
    /\ req[r].op = "complete"
    /\ req[r].pc # "idle"
    /\ req'[r].pc = "idle"
    /\ req[r].inst.to_user # NoUser
    /\ req[r].inst.transfer_amount <= investments[req[r].seller_pk].current_value

\* The settlement of transfer t is in place in the next state.
SettledAfter(t) ==
    /\ transfers'[t].is_processed
    /\ transfers'[t].completion_date
    /\ \E k \in 1..Len(activities') :
          /\ activities'[k].transfer = t
          /\ activities'[k].activity_type # "INITIAL_INVESTMENT"
    /\ \E k \in 1..Len(activities') :
          /\ activities'[k].transfer = t
          /\ activities'[k].activity_type = "INITIAL_INVESTMENT"

\* C23 as stated: whenever Complete returns for an APPROVED transfer to a
\* registered user with transfer_amount <= the seller's current_value, the
\* seller debit and the buyer credit are applied and the transfer has
\* is_processed = true and a completion date.
C23_CompleteSettles ==
    [][\A r \in Reqs : CompleteReturns(r) => SettledAfter(req[r].tid)]_vars

\* C23 with the rollback allowed: whenever such a Complete returns, either the seller debit
\* and the buyer credit are applied and the transfer has is_processed =
\* true and a completion date, or a step of the settlement block raised and
\* the block was rolled back: no investment, no activity and no transfer
\* changed when it ended.
C23_CompleteSettlesUnlessRaised ==
    [][\A r \in Reqs :
          CompleteReturns(r)
          => \/ SettledAfter(req[r].tid)
             \/ /\ req[r].pc \in {"settling", "tx_open"}
                /\ investments' = investments
                /\ activities' = activities
                /\ transfers' = transfers]_vars

\* ------------------------------------- two holdings of one fund name
\* Investment has no unique constraint on (user, name): u1 holds two
\* investments named X, and an APPROVED transfer of each to u2 waits for
\* completion.
TwinInit ==
    /\ \E ti \in 1..InitMax, ty1 \in TRANSFER_TYPE_CHOICES, ty2 \in TRANSFER_TYPE_CHOICES,
          m \in RoundingModes :
          /\ investments = <<Investment("u1", "X", "ACTIVE", ti, InitMax),
                             Investment("u1", "X", "ACTIVE", ti, InitMax)>>
          /\ transfers = <<StoredFee(OwnershipTransfer(1, "u1", "u2", ty1, MaxAmount,
                                                      "APPROVED"), m),
                           StoredFee(OwnershipTransfer(2, "u1", "u2", ty2, MaxAmount,
                                                      "APPROVED"), m)>>
    /\ activities = <<>>
    /\ req = [r \in Reqs |-> Idle]
    /\ snapshots = CreationSnapshots(investments, 1)
    /\ today = 1
    /\ calc = NoCalc

\* Concurrent Complete requests.
TwinNext ==
    \E r \in Reqs :
        \/ \E u \in Users, t \in TransferIds : BeginComplete(r, u, t)
        \/ Save(r)
        \/ TxOpen(r)
        \/ \E fail \in FailPoints : TxCommit(r, fail)

TwinSpec == TwinInit /\ [][TwinNext]_vars

\* C24: the settlements of several transfers of a same-named fund to one
\* buyer credit one and the same buyer investment: settlement never gives
\* the buyer a second investment of that name.
C24_OneBuyerInvestment ==
    \A t \in TransferIds :
        Cardinality(BuyerMatches(investments, transfers[t].to_user,
                                 investments[transfers[t].investment].name)) <= 1

\* C25: in every state a transfer with is_processed = true has status
\* COMPLETED and a completion date, and a transfer with a completion date
\* has is_processed = true.
C25_ProcessedIsCompleted ==
    \A t \in TransferIds :
        /\ transfers[t].is_processed
              => (transfers[t].status = "COMPLETED" /\ transfers[t].completion_date)
        /\ transfers[t].completion_date => transfers[t].is_processed

\* ------------------------------------------ cost basis of a partial exit
\* One APPROVED transfer of u1's investment to u2, for every cost basis,
\* value and amount up to MaxCents cents.
MoicInit ==
    /\ \E ti \in 1..MaxCents, cv \in 1..MaxCents, ty \in TRANSFER_TYPE_CHOICES,
          m \in RoundingModes :
       \E amt \in 1..cv :
          /\ investments = <<Investment("u1", "X", "ACTIVE", ti, cv)>>
          /\ transfers = <<StoredFee(OwnershipTransfer(1, "u1", "u2", ty, amt, "APPROVED"), m)>>
    /\ activities = <<>>
    /\ req = [r \in Reqs |-> Idle]
    /\ snapshots = CreationSnapshots(investments, 1)
    /\ today = 1
    /\ calc = NoCalc

MoicSpec == MoicInit /\ [][TwinNext]_vars

\* Request r, settling a PARTIAL transfer, computes the new balances of the
\* seller investment it holds, and the full-exit rule does not apply.
SettlesPartially(r) ==
    /\ req[r].pc = "settling"
    /\ req'[r].pc = "tx_open"
    /\ req[r].inst.transfer_type = "PARTIAL"
    /\ req'[r].seller.status # "EXITED"

Prefix(seq, n) ==
    [k \in 1..n |-> seq[k]]

\* C27: a step of a create, submit, approve or cancel request changes no
\* Investment and no CapitalActivity; a committing settlement changes only
\* the transfer's seller investment and the recipient's investment of the
\* same name, keeps every activity that existed, and changes no other
\* transfer.
C27_Frame ==
    [][\A r \in Reqs :
          /\ (Steps(r) /\ req[r].op \in {"create", "submit", "approve", "cancel"})
                => (investments' = investments /\ activities' = activities)
          /\ Commits(r)
                => /\ \A i \in InvestmentIds :
                         investments'[i] # investments[i]
                         => \/ i = req[r].seller_pk
                            \/ /\ investments[i].user = req[r].inst.to_user
                               /\ investments[i].name = investments[req[r].seller_pk].name
                   /\ \A i \in (1..Len(investments')) \ InvestmentIds :
                         /\ investments'[i].user = req[r].inst.to_user
                         /\ investments'[i].name = investments[req[r].seller_pk].name
                   /\ Len(activities') >= Len(activities)
                   /\ Prefix(activities', Len(activities)) = activities
                   /\ \A t \in TransferIds :
                         t # req[r].tid => transfers'[t] = transfers[t]]_vars

\* ----------------------------------------------- performance snapshots
UniqueTogetherDropped(snaps, i, d) ==
    TRUE

\* PerformanceSnapshot.Meta.unique_together = ['investment', 'date']: the
\* database accepts an insert of (i, d) only when no row has that pair.
UniqueTogether(snaps, i, d) ==
    ~SnapshotExists(snaps, i, d)

\* The row of investment i is locked by an open settlement.
InvestmentLocked(i) ==
    \E o \in Reqs : req[o].pc = "tx_open" /\ i \in {req[o].seller_pk, req[o].buyer_pk}

\* PUT /investments/{i}/ by its owner with a new current_value: the row is
\* written, then create_performance_snapshot reads the date and looks for
\* a snapshot of that day (code holds the date it read).
InvestmentUpdate(r, u, i, cv) ==
    /\ FreeSlot(r)
    /\ i \in InvestmentIds
    /\ investments[i].user = u
    /\ ~InvestmentLocked(i)
    /\ investments' = [investments EXCEPT ![i].current_value = cv]
    /\ req' = [req EXCEPT ![r] =
                 IF cv > 0 /\ ~SnapshotExists(snapshots, i, today)
                 THEN [Idle EXCEPT !.pc = "snapshot", !.op = "investment_update", !.user = u,
                                   !.code = today, !.seller_pk = i,
                                   !.seller = investments'[i]]
                 ELSE Idle]
    /\ UNCHANGED <<activities, transfers, snapshots, today, calc>>

\* PerformanceSnapshot.objects.create(...) of the receiver: the row is
\* inserted unless the unique constraint rejects it (IntegrityError, which
\* ends the request).
SnapshotInsert(r) ==
    /\ req[r].pc = "snapshot"
    /\ snapshots' = IF UniqueTogether(snapshots, req[r].seller_pk, req[r].code)
                    THEN Append(snapshots, PerformanceSnapshot(req[r].seller_pk, req[r].code,
                                                                req[r].seller.current_value))
                    ELSE snapshots
    /\ req' = [req EXCEPT ![r] = Idle]
    /\ UNCHANGED <<investments, activities, transfers, today, calc>>

\* Midnight.
NextDay ==
    /\ today < MaxDay
    /\ today' = today + 1
    /\ UNCHANGED <<investments, activities, transfers, req, snapshots, calc>>

\* One investment of u1, created the day before, and an APPROVED transfer
\* of part or all of it to u2.
SnapshotInit ==
    /\ \E cv \in {MaxAmount, InitMax}, ty \in TRANSFER_TYPE_CHOICES :
          /\ investments = <<Investment("u1", "X", "ACTIVE", InitMax, cv)>>
          /\ transfers = <<StoredFee(OwnershipTransfer(1, "u1", "u2", ty, MaxAmount,
                                                      "APPROVED"), "ROUND_HALF_EVEN")>>
    /\ activities = <<>>
    /\ req = [r \in Reqs |-> Idle]
    /\ snapshots = CreationSnapshots(investments, 1)
    /\ today = 1
    /\ calc = NoCalc

SnapshotNext ==
    \/ \E r \in Reqs :
          \/ \E u \in Users, i \in InvestmentIds, cv \in 0..InitMax :
                InvestmentUpdate(r, u, i, cv)
          \/ SnapshotInsert(r)
          \/ \E u \in Users, t \in TransferIds : BeginComplete(r, u, t)
          \/ Save(r)
          \/ TxOpen(r)
          \/ \E fail \in FailPoints : TxCommit(r, fail)
    \/ NextDay

SnapshotSpec == SnapshotInit /\ [][SnapshotNext]_vars

\* C28: there is at most one PerformanceSnapshot per (investment, date);
\* a step never changes or removes a snapshot, and every snapshot it adds
\* has a positive value, is dated with the date the receiver read as
\* today, and is the first of its investment and date.
C28_OneSnapshotPerDay ==
    /\ [](\A j, k \in 1..Len(snapshots) :
             (snapshots[j].investment = snapshots[k].investment
                 /\ snapshots[j].date = snapshots[k].date) => j = k)
    /\ [][/\ Len(snapshots') >= Len(snapshots)
          /\ Prefix(snapshots', Len(snapshots)) = snapshots
          /\ \A k \in (1..Len(snapshots')) \ (1..Len(snapshots)) :
                /\ snapshots'[k].value > 0
                /\ \/ snapshots'[k].date = today
                   \/ \E r \in Reqs : /\ req[r].pc = "snapshot"
                                      /\ Steps(r)
                                      /\ snapshots'[k].date = req[r].code
                /\ ~SnapshotExists(snapshots, snapshots'[k].investment,
                                   snapshots'[k].date)]_vars

\* Two saves of one investment on one day have both found no snapshot of
\* that day and are both about to insert one.
C28_Witness ==
    \E r \in Reqs, o \in Reqs :
        /\ r # o
        /\ req[r].pc = "snapshot"
        /\ req[o].pc = "snapshot"
        /\ req[r].seller_pk = req[o].seller_pk
        /\ req[r].code = req[o].code

\* --------------------------------------------- access to a transfer
PerTransferOps == {"retrieve", "update", "submit", "approve", "complete", "cancel"}

\* A per-transfer call whose get_object() finds no row in the caller's
\* queryset: Http404, nothing is loaded and nothing is written.  approve
\* and complete check IsAdminUser before the lookup.
NotFound(u, t, op) ==
    /\ Sequential
    /\ t \in TransferIds
    /\ op \in {"approve", "complete"} => u \in Staff
    /\ ~Visible(u, transfers[t])
    /\ calc' = [NoCalc EXCEPT !.op = op,
                              !.result = [kind |-> "response", code |-> 404,
                                          user |-> u, tid |-> t]]
    /\ UNCHANGED <<investments, activities, transfers, req, snapshots, today>>

\* Investor u2 holds the investment; u1 is staff.
AccessInit ==
    /\ \E ti \in 1..InitMax :
          investments = <<Investment("u2", "X", "ACTIVE", ti, InitMax)>>
    /\ activities = <<>>
    /\ transfers = <<>>
    /\ req = [r \in Reqs |-> Idle]
    /\ snapshots = CreationSnapshots(investments, 1)
    /\ today = 1
    /\ calc = NoCalc

AccessNext ==
    \/ ApiNext
    \/ \E u \in Users, t \in TransferIds, op \in PerTransferOps : NotFound(u, t, op)

AccessSpec == AccessInit /\ [][AccessNext]_vars

\* u is the sender or the recipient of tr.
IsParty(u, tr) ==
    tr.from_user = u \/ tr.to_user = u

FlaggedInstanceUnset(inst) ==
    inst

\* "3. Mark transfer as processed and set completion date" on the instance.
FlaggedInstance(inst) ==
    [inst EXCEPT !.is_processed = TRUE, !.completion_date = TRUE]

\* Steps 1 to 5 of the block ran; the instance is flagged and saved with
\* update_fields, and that save sends post_save again (code counts the
\* saves the handler itself made for this request).
FlagSave(r) ==
    /\ req[r].pc = "tx_open"
    /\ req' = [req EXCEPT ![r] = [@ EXCEPT !.pc = "refired", !.code = @ + 1,
                                           !.inst = FlaggedInstance(@)]]
    /\ UNCHANGED <<investments, activities, transfers, snapshots, today, calc>>

\* handle_transfer_completion called by that post_save, on the same
\* instance and its seller investment: it returns at one of its early
\* returns, or runs the body again.
Reenter(r) ==
    /\ req[r].pc = "refired"
    /\ req' = [req EXCEPT ![r].pc = IF HandlerProceeds(req[r].inst, req[r].seller)
                                    THEN "settling"
                                    ELSE "returned"]
    /\ UNCHANGED <<investments, activities, transfers, snapshots, today, calc>>

\* End of the atomic block: after the nested handler has returned the
\* writes are committed unless the audit logging raises; a step that
\* raised before the flag was saved rolls the block back.
TxClose(r, fail) ==
    /\ \/ req[r].pc = "tx_open" /\ fail \in 1..6
       \/ req[r].pc = "returned" /\ fail \in {0, 7}
    /\ LET d == Atomic(Db, Written(Db, req[r], fail), fail)
       IN  /\ investments' = d.inv
           /\ activities' = d.act
           /\ transfers' = d.tr
           /\ snapshots' = d.snap
    /\ req' = [req EXCEPT ![r] = Idle]
    /\ UNCHANGED <<today, calc>>

\* Complete requests, one at a time, with the signal dispatch of the
\* handler's own save as steps.
RefireNext ==
    \E r \in Reqs :
        \/ Sequential /\ \E u \in Users, t \in TransferIds : BeginComplete(r, u, t)
        \/ Save(r)
        \/ TxOpen(r)
        \/ FlagSave(r)
        \/ Reenter(r)
        \/ \E fail \in FailPoints : TxClose(r, fail)

RefireSpec == MoicInit /\ [][RefireNext]_vars

\* C30: the post_save sent by the handler's own save of the transfer makes
\* the handler return at once, never run the settlement body again: the
\* handler saves the transfer at most once per request, so the chain of
\* invocations ends.
C30_RefireReturnsAtOnce ==
    /\ [][\A r \in Reqs :
             (req[r].pc = "refired" /\ Steps(r)) => req'[r].pc = "returned"]_vars
    /\ [](\A r \in Reqs : req[r].code <= 1)

\* The nested handler has returned from a PARTIAL settlement after which
\* the seller's value still covers the transfer amount.
C30_Witness ==
    \E r \in Reqs :
        /\ req[r].pc = "returned"
        /\ req[r].code = 1
        /\ req[r].inst.status = "COMPLETED"
        /\ req[r].inst.to_user # NoUser
        /\ req[r].seller.current_value >= req[r].inst.transfer_amount

====
